---- MODULE Spec2Model ----
(***************************************************************************)
(* A model of DBManager (src/library_db.py): one SQLite file holding the   *)
(* tables books, authors, genres and book_genres, and the operations the   *)
(* class offers on it.  Every public method is one action; the SQL each    *)
(* method sends is modelled by the Sql* operators, which return the new    *)
(* database together with the sqlite3 exception the statement raises.      *)
(***************************************************************************)
EXTENDS Integers, Sequences, FiniteSets, TLC

VARIABLES conn, db, ret, pending

vars == <<conn, db, ret, pending>>

\* ------------------------------------------------------------------ bounds
\* Largest primary key the model lets a table hand out.
MaxId == 2
\* Largest number of rows the whole database holds.
MaxRows == 3
\* Largest number of book_genres rows a database with no other row holds.
MaxLinks == 3

\* ------------------------------------------------------------- the schema
\* SQL NULL, which is what Python's None binds to.
NULL == "<NULL>"
\* What a method without a return statement returns.
None == "<None>"

AllTables == {"books", "authors", "genres", "book_genres"}

Columns(t) ==
    CASE t = "books" -> {"book_id", "title", "author_id", "publication_year"}
      [] t = "authors" -> {"author_id", "first_name", "last_name", "biography"}
      [] t = "genres" -> {"genre_id", "genre_name"}
      [] t = "book_genres" -> {"book_id", "genre_id"}

\* The INTEGER PRIMARY KEY column (the rowid alias) of a table; book_genres has
\* a composite primary key and no such column.
RowidCol(t) ==
    CASE t = "books" -> "book_id"
      [] t = "authors" -> "author_id"
      [] t = "genres" -> "genre_id"
      [] t = "book_genres" -> "<none>"

\* The columns declared TEXT ... NOT NULL.
NotNullText(t) ==
    CASE t = "books" -> {"title"}
      [] t = "authors" -> {"first_name", "last_name"}
      [] t = "genres" -> {"genre_name"}
      [] t = "book_genres" -> {}

IntegerCols == {"book_id", "author_id", "genre_id"}

\* Integer columns hold integers in this model; only TEXT values can be NULL.
IsNull(c, v) == c \notin IntegerCols /\ v = NULL

\* SQL's "=": a comparison with NULL is never true.
SqlEq(c, a, b) == ~IsNull(c, a) /\ ~IsNull(c, b) /\ a = b

EmptyDb == [t \in {} |-> {}]

TotalRows(d) ==
    LET Count(t) == IF t \in DOMAIN d THEN Cardinality(d[t]) ELSE 0
    IN  Count("books") + Count("authors") + Count("genres") + Count("book_genres")

\* -------------------------------------------------------- SQL statements
\* Each returns [db, err]: the database after the statement and the sqlite3
\* exception class it raises ("none" when it succeeds).  A failing statement
\* changes nothing.
Ok(d) == [db |-> d, err |-> "none"]
Fail(d, e) == [db |-> d, err |-> e]

\* DROP TABLE IF EXISTS t; CREATE TABLE t (...): the table is made anew.
SqlCreateTableFresh(d, t) ==
    Ok([x \in DOMAIN d \cup {t} |-> IF x = t THEN {} ELSE d[x]])

\* CREATE TABLE IF NOT EXISTS t (...)
SqlCreateTable(d, t) ==
    IF t \in DOMAIN d THEN Ok(d)
    ELSE Ok([x \in DOMAIN d \cup {t} |-> IF x = t THEN {} ELSE d[x]])

\* The rowid SQLite gives a new row: one more than the largest in the table.
NextRowid(rows, pk) ==
    IF rows = {} THEN 1
    ELSE (CHOOSE m \in {r[pk] : r \in rows} :
             \A r \in rows : r[pk] <= m) + 1

\* INSERT INTO t(cols of vals) VALUES(?, ...)
SqlInsert(d, t, vals) ==
    IF t \notin DOMAIN d THEN Fail(d, "OperationalError")
    ELSE IF \E c \in NotNullText(t) : IsNull(c, vals[c])
    THEN Fail(d, "IntegrityError")
    ELSE IF t = "book_genres"
    THEN IF \E r \in d[t] : r.book_id = vals.book_id /\ r.genre_id = vals.genre_id
         THEN Fail(d, "IntegrityError")
         ELSE Ok([d EXCEPT ![t] = @ \cup
                    {[book_id |-> vals.book_id, genre_id |-> vals.genre_id]}])
    ELSE LET pk == RowidCol(t)
             row == [c \in Columns(t) |->
                        IF c = pk THEN NextRowid(d[t], pk) ELSE vals[c]]
         IN  Ok([d EXCEPT ![t] = @ \cup {row}])

\* DELETE FROM t
SqlDeleteAll(d, t) ==
    IF t \notin DOMAIN d THEN Fail(d, "OperationalError")
    ELSE Ok([d EXCEPT ![t] = {}])

\* DELETE FROM t WHERE col = ?
SqlDeleteWhere(d, t, col, v) ==
    IF t \notin DOMAIN d THEN Fail(d, "OperationalError")
    ELSE Ok([d EXCEPT ![t] = {r \in @ : ~SqlEq(col, r[col], v)}])

\* UPDATE t SET k1 = ?, ... with the WHERE clause left out: every row is set.
SqlUpdateNoWhere(d, t, kw, idcol, id) ==
    IF t \notin DOMAIN d THEN Fail(d, "OperationalError")
    ELSE IF DOMAIN kw = {} THEN Fail(d, "OperationalError")
    ELSE IF \E c \in DOMAIN kw \cup {idcol} : c \notin Columns(t)
    THEN Fail(d, "OperationalError")
    ELSE IF d[t] # {} /\ \E c \in DOMAIN kw \cap NotNullText(t) : IsNull(c, kw[c])
    THEN Fail(d, "IntegrityError")
    ELSE IF RowidCol(t) \in DOMAIN kw /\ Cardinality(d[t]) > 1
    THEN Fail(d, "IntegrityError")
    ELSE Ok([d EXCEPT ![t] =
               {[c \in Columns(t) |-> IF c \in DOMAIN kw THEN kw[c] ELSE r[c]] : r \in @}])

\* UPDATE t SET k1 = ?, k2 = ? ... WHERE idcol = ?   (kw maps column -> value)
SqlUpdate(d, t, kw, idcol, id) ==
    IF t \notin DOMAIN d THEN Fail(d, "OperationalError")          \* no such table
    ELSE IF DOMAIN kw = {} THEN Fail(d, "OperationalError")        \* "SET WHERE": syntax error
    ELSE IF \E c \in DOMAIN kw \cup {idcol} : c \notin Columns(t)
    THEN Fail(d, "OperationalError")                               \* no such column
    ELSE LET target == {r \in d[t] : SqlEq(idcol, r[idcol], id)}
             others == d[t] \ target
             pk     == RowidCol(t)
             New(r) == [c \in Columns(t) |-> IF c \in DOMAIN kw THEN kw[c] ELSE r[c]]
         IN  IF target = {} THEN Ok(d)
             ELSE IF \E c \in DOMAIN kw \cap NotNullText(t) : IsNull(c, kw[c])
             THEN Fail(d, "IntegrityError")                        \* NOT NULL constraint
             ELSE IF pk \in DOMAIN kw /\ \E r \in others : r[pk] = kw[pk]
             THEN Fail(d, "IntegrityError")                        \* UNIQUE (primary key)
             ELSE Ok([d EXCEPT ![t] = others \cup {New(r) : r \in target}])

\* The conditions joined with " OR " in place of " AND ".
RECURSIVE WhereClauseAny(_, _)
WhereClauseAny(r, conds) ==
    IF conds = <<>> THEN FALSE
    ELSE SqlEq(Head(conds)[1], r[Head(conds)[1]], Head(conds)[2])
         \/ WhereClauseAny(r, Tail(conds))

\* The WHERE clause select_where builds: "k1=? AND k2=? ..." over the items
\* of the query dict, in order.
RECURSIVE WhereClause(_, _)
WhereClause(r, conds) ==
    IF conds = <<>> THEN TRUE
    ELSE SqlEq(Head(conds)[1], r[Head(conds)[1]], Head(conds)[2])
         /\ WhereClause(r, Tail(conds))

\* SELECT * FROM t WHERE k1=? AND k2=? ...
SqlSelectWhere(d, t, conds) ==
    IF conds = <<>> THEN [rows |-> {}, err |-> "OperationalError"]   \* "WHERE ": syntax error
    ELSE IF t \notin DOMAIN d THEN [rows |-> {}, err |-> "OperationalError"]
    ELSE IF \E i \in 1..Len(conds) : conds[i][1] \notin Columns(t)
    THEN [rows |-> {}, err |-> "OperationalError"]
    ELSE [rows |-> {r \in d[t] : WhereClause(r, conds)}, err |-> "none"]

\* SELECT * FROM t
SqlSelectAll(d, t) ==
    IF t \notin DOMAIN d THEN [rows |-> {}, err |-> "OperationalError"]
    ELSE [rows |-> d[t], err |-> "none"]

\* A finite set of integers as the ascending sequence of its members.
RECURSIVE Ascending(_)
Ascending(S) ==
    IF S = {} THEN <<>>
    ELSE LET m == CHOOSE x \in S : \A y \in S : x <= y
         IN  <<m>> \o Ascending(S \ {m})

\* The rows of print_full_info's query: books INNER JOIN authors, LEFT JOIN
\* book_genres and genres, GROUP BY and ORDER BY books.book_id.  book_genres
\* holds the set of genre names GROUP_CONCAT joins (it skips NULLs; the order
\* it joins them in is the engine's).
SqlFullInfo(d) ==
    IF AllTables \ DOMAIN d # {} THEN [rows |-> <<>>, err |-> "OperationalError"]
    ELSE LET joined == {b \in d["books"] :
                           \E a \in d["authors"] : a.author_id = b.author_id}
             Book(i) == CHOOSE b \in joined : b.book_id = i
             Author(b) == CHOOSE a \in d["authors"] : a.author_id = b.author_id
             Names(b) == {g.genre_name : g \in
                            {g \in d["genres"] :
                               \E l \in d["book_genres"] :
                                  l.book_id = b.book_id /\ l.genre_id = g.genre_id}}
             Rec(b) == [book_id |-> b.book_id, title |-> b.title,
                        first_name |-> Author(b).first_name,
                        last_name |-> Author(b).last_name,
                        biography |-> Author(b).biography,
                        publication_year |-> b.publication_year,
                        book_genres |-> Names(b)]
             ids == Ascending({b.book_id : b \in joined})
         IN  [rows |-> [i \in 1..Len(ids) |-> Rec(Book(ids[i]))], err |-> "none"]

\* ------------------------------------------------------ DBManager methods
\* Each method is an operator from the database before the call to its
\* outcome: the database after it, the exception that leaves the method
\* ("none" when it returns), whether a failure was printed, and the value
\* returned.
Outcome(d, e, l, v) == [db |-> d, exc |-> e, log |-> l, val |-> v]

\* self.conn is None: self.conn.cursor() / self.conn.commit() raise
\* AttributeError, which no handler of the class names.
NoConnection(d) == Outcome(d, "AttributeError", FALSE, None)

\* The sqlite3 exception classes "except Error" catches.
Error == {"OperationalError", "IntegrityError"}

\* execute_sql on a statement whose result on d is res.
execute_sql(d, res) ==
    IF conn = "none" THEN NoConnection(d)
    ELSE IF res.err = "none" THEN Outcome(res.db, "none", FALSE, None)
    ELSE IF res.err \in Error THEN Outcome(d, "none", TRUE, None)
    ELSE Outcome(d, res.err, FALSE, None)

\* A call made after `before` returned: it is skipped when `before` raised,
\* and the printed failures add up.
AndThen(before, after) ==
    IF before.exc # "none" THEN before
    ELSE [after EXCEPT !.log = before.log \/ after.log]

create_tables(d) ==
    LET o1 == execute_sql(d, SqlCreateTable(d, "books"))
        o2 == AndThen(o1, execute_sql(o1.db, SqlCreateTable(o1.db, "authors")))
        o3 == AndThen(o2, execute_sql(o2.db, SqlCreateTable(o2.db, "genres")))
    IN  AndThen(o3, execute_sql(o3.db, SqlCreateTable(o3.db, "book_genres")))

add_book(d, title, author_id, publication_year) ==
    execute_sql(d, SqlInsert(d, "books",
        [title |-> title, author_id |-> author_id,
         publication_year |-> publication_year]))

add_author(d, first_name, last_name, biography) ==
    execute_sql(d, SqlInsert(d, "authors",
        [first_name |-> first_name, last_name |-> last_name,
         biography |-> biography]))

genre_exists(d, genre_name) ==
    IF conn = "none" THEN NoConnection(d)
    ELSE LET res == SqlSelectWhere(d, "genres", << <<"genre_name", genre_name>> >>)
         IN  IF res.err = "none" THEN Outcome(d, "none", FALSE, res.rows # {})
             ELSE Outcome(d, "none", TRUE, FALSE)

\* The insert with genre_name declared UNIQUE: a second row of the name is
\* an IntegrityError, which execute_sql prints.
InsertGenreUnique(d, genre_name) ==
    IF conn = "ok" /\ "genres" \in DOMAIN d
       /\ \E r \in d["genres"] : r.genre_name = genre_name
    THEN Outcome(d, "none", TRUE, None)
    ELSE execute_sql(d, SqlInsert(d, "genres", [genre_name |-> genre_name]))

\* The insert add_genre makes when the check answered False.
InsertGenre(d, genre_name) ==
    execute_sql(d, SqlInsert(d, "genres", [genre_name |-> genre_name]))

\* add_genre with the check's answer ignored.
add_genre_unchecked(d, genre_name, exists) ==
    execute_sql(d, SqlInsert(d, "genres", [genre_name |-> genre_name]))

\* The second half of add_genre, given what genre_exists answered.
add_genre_after_check(d, genre_name, exists) ==
    IF ~exists THEN InsertGenre(d, genre_name)
    ELSE Outcome(d, "none", FALSE, None)

add_genre(d, genre_name) ==
    LET chk == genre_exists(d, genre_name)
    IN  IF chk.exc # "none" THEN [chk EXCEPT !.val = None]
        ELSE AndThen(chk, add_genre_after_check(d, genre_name, chk.val))

\* The inserts link_books_to_genres makes for one book, one per sampled
\* position of genre_ids; every insert goes through execute_sql.
RECURSIVE LinkOne(_, _, _, _)
LinkOne(o, book_id, genre_ids, positions) ==
    IF positions = {} THEN o
    ELSE LET i == CHOOSE x \in positions : \A y \in positions : x <= y
             next == AndThen(o, execute_sql(o.db, SqlInsert(o.db, "book_genres",
                         [book_id |-> book_id, genre_id |-> genre_ids[i]])))
         IN  LinkOne(next, book_id, genre_ids, positions \ {i})

\* The samples with k drawn from 1..len(genre_ids), the cap of 3 left out.
SamplesUncapped(genre_ids) ==
    {P \in SUBSET (1..Len(genre_ids)) : Cardinality(P) >= 1}

\* The samples random.sample(genre_ids, k) can draw for k in
\* 1..min(len(genre_ids), 3), as sets of positions of genre_ids.
Samples(genre_ids) ==
    LET n == Len(genre_ids)
        most == IF n < 3 THEN n ELSE 3
    IN  {P \in SUBSET (1..n) : Cardinality(P) >= 1 /\ Cardinality(P) <= most}

\* link_books_to_genres with sample[j] the positions drawn for book_ids[j].
RECURSIVE LinkFrom(_, _, _, _, _)
LinkFrom(o, j, book_ids, genre_ids, sample) ==
    IF j > Len(book_ids) \/ o.exc # "none" THEN o
    ELSE IF genre_ids = <<>>
    THEN Outcome(o.db, "ValueError", o.log, None)     \* random.randint(1, 0)
    ELSE LinkFrom(LinkOne(o, book_ids[j], genre_ids, sample[j]),
                  j + 1, book_ids, genre_ids, sample)

link_books_to_genres(d, book_ids, genre_ids, sample) ==
    LinkFrom(Outcome(d, "none", FALSE, None), 1, book_ids, genre_ids, sample)

get_book_ids(d) ==
    IF conn = "none" THEN NoConnection(d)
    ELSE LET res == SqlSelectAll(d, "books")
         IN  IF res.err = "none"
             THEN Outcome(d, "none", FALSE, {r.book_id : r \in res.rows})
             ELSE Outcome(d, "none", TRUE, {})

get_genre_ids(d) ==
    IF conn = "none" THEN NoConnection(d)
    ELSE LET res == SqlSelectAll(d, "genres")
         IN  IF res.err = "none"
             THEN Outcome(d, "none", FALSE, {r.genre_id : r \in res.rows})
             ELSE Outcome(d, "none", TRUE, {})

\* The check with the count of book_genres left out.
is_database_empty_three(d) ==
    IF conn = "none" THEN NoConnection(d)
    ELSE IF \E t \in AllTables : SqlSelectAll(d, t).err # "none"
    THEN Outcome(d, "none", TRUE, FALSE)
    ELSE Outcome(d, "none", FALSE,
                 \A t \in AllTables \ {"book_genres"} :
                    Cardinality(SqlSelectAll(d, t).rows) = 0)

\* The four SELECT COUNT(*) in turn; the first missing table ends the method
\* in its handler.
is_database_empty(d) ==
    IF conn = "none" THEN NoConnection(d)
    ELSE IF \E t \in AllTables : SqlSelectAll(d, t).err # "none"
    THEN Outcome(d, "none", TRUE, FALSE)
    ELSE Outcome(d, "none", FALSE,
                 \A t \in AllTables : Cardinality(SqlSelectAll(d, t).rows) = 0)

\* An optional id: <<>> is None and <<n>> is the integer n.
NoId == <<>>
\* Python's "if id:".
Truthy(id) == id # NoId /\ id[1] # 0

\* The column delete_queries[table][0] compares with the id.
DeleteKey(table) ==
    CASE table = "books" -> "book_id"
      [] table = "authors" -> "author_id"
      [] table = "genres" -> "genre_id"
      [] table = "book_genres" -> "book_id"

delete(d, table, id) ==
    IF conn = "none" THEN NoConnection(d)
    ELSE IF table \notin AllTables THEN Outcome(d, "none", FALSE, None)
    ELSE LET res == IF Truthy(id)
                    THEN SqlDeleteWhere(d, table, DeleteKey(table), id[1])
                    ELSE SqlDeleteAll(d, table)
         IN  IF res.err = "none" THEN Outcome(res.db, "none", FALSE, None)
             ELSE Outcome(d, "none", TRUE, None)

\* update catches sqlite3.OperationalError alone.
update(d, table, _id, kwargs) ==
    IF conn = "none" THEN NoConnection(d)
    ELSE LET res == SqlUpdate(d, table \o "s", kwargs, table \o "_id", _id)
         IN  IF res.err = "none" THEN Outcome(res.db, "none", FALSE, None)
             ELSE IF res.err = "OperationalError" THEN Outcome(d, "none", TRUE, None)
             ELSE Outcome(d, res.err, FALSE, None)

select_all(d, table) ==
    IF conn = "none" THEN NoConnection(d)
    ELSE LET res == SqlSelectAll(d, table)
         IN  Outcome(d, "none", res.err # "none", res.rows)

select_where(d, table, query) ==
    IF conn = "none" THEN NoConnection(d)
    ELSE LET res == SqlSelectWhere(d, table, query)
         IN  Outcome(d, "none", res.err # "none", res.rows)

\* val is the sequence of records printed.
print_full_info(d) ==
    IF conn = "none" THEN NoConnection(d)
    ELSE LET res == SqlFullInfo(d)
         IN  Outcome(d, "none", res.err # "none", res.rows)

\* ---------------------------------------------------------------- inputs
\* The arguments the callers pass: the names src/db_data_generator.py and
\* src/main.py use, and the values that reach each branch of the methods.
GenreNames == {"fantasy", "action"}
Titles == {"T", NULL}
FirstNames == {"A", NULL}
Years == {"2020", NULL}
AuthorIds == {1, 2}
OptionalIds == {NoId} \cup {<<n>> : n \in 0..MaxId}
TableArgs == AllTables \cup {"magazines"}
EmptyKwargs == [c \in {} |-> NULL]
\* update(table, _id, **kwargs) as <<table, _id, kwargs>>.
UpdateCalls ==
    {<<"book", 1, [publication_year |-> NULL]>>,
     <<"book", 2, [author_id |-> 2, publication_year |-> "2020"]>>,
     <<"book", 1, [title |-> NULL]>>,
     <<"book", 1, [book_id |-> 2]>>,
     <<"book", 1, [pages |-> "100"]>>,
     <<"book", 1, EmptyKwargs>>,
     <<"author", 1, [biography |-> "test"]>>,
     <<"author", 2, [first_name |-> NULL]>>,
     <<"genre", 1, [genre_name |-> "action"]>>,
     <<"book_genre", 1, [genre_id |-> 1]>>,
     <<"books", 1, [publication_year |-> NULL]>>}
\* select_where(table, **query) as <<table, the items of query>>.
Queries ==
    {<<"books", <<>> >>,
     <<"books", << <<"publication_year", "2020">> >> >>,
     <<"books", << <<"publication_year", NULL>> >> >>,
     <<"books", << <<"author_id", 1>>, <<"publication_year", "2020">> >> >>,
     <<"books", << <<"pages", "100">> >> >>,
     <<"authors", << <<"biography", "test">> >> >>,
     <<"genres", << <<"genre_name", "fantasy">> >> >>,
     <<"book_genres", << <<"book_id", 1>> >> >>,
     <<"magazines", << <<"title", "T">> >> >>}
BookIdLists == {<<>>, <<1>>, <<1, 2>>}
GenreIdLists == {<<>>, <<1>>, <<1, 2>>}
WideGenreIdLists == {<<>>, <<1>>, <<3, 4>>, <<1, 2, 3, 4>>}
Callers == {1, 2}

\* ----------------------------------------------------------------- state
\* conn: "ok" when sqlite3.connect returned a connection, "none" when it
\*       raised and create_connection returned None.
\* db:   the tables of the file that exist, each with its set of rows.
\* ret:  how the last call ended: the exception that left it ("none" when it
\*       returned) and whether it printed a failure.
\* pending: for each concurrent caller of add_genre, whether it is between
\*       the check and the insert, and with which name and answer.
Idle == [pc |-> "idle", genre_name |-> "", exists |-> FALSE]

Init ==
    /\ conn \in {"ok", "none"}
    /\ db = EmptyDb
    /\ ret = [exc |-> "none", log |-> (conn = "none")]
    /\ pending = [c \in Callers |-> Idle]

Links(d) == IF "book_genres" \in DOMAIN d THEN Cardinality(d["book_genres"]) ELSE 0

\* The bounds of the model: no call is taken past them.
Bounded(d) ==
    /\ \/ TotalRows(d) <= MaxRows
       \/ TotalRows(d) = Links(d) /\ Links(d) <= MaxLinks
    /\ \A t \in DOMAIN d \ {"book_genres"} : \A r \in d[t] : r[RowidCol(t)] <= MaxId

Return(out) ==
    /\ Bounded(out.db)
    /\ db' = out.db
    /\ ret' = [exc |-> out.exc, log |-> out.log]
    /\ UNCHANGED conn

\* --------------------------------------------------------------- actions
CreateTables ==
    /\ Return(create_tables(db))
    /\ UNCHANGED pending

AddBook(title, author_id, publication_year) ==
    /\ Return(add_book(db, title, author_id, publication_year))
    /\ UNCHANGED pending

AddAuthor(first_name, last_name, biography) ==
    /\ Return(add_author(db, first_name, last_name, biography))
    /\ UNCHANGED pending

GenreExists(genre_name) ==
    /\ Return(genre_exists(db, genre_name))
    /\ UNCHANGED pending

AddGenre(genre_name) ==
    /\ Return(add_genre(db, genre_name))
    /\ UNCHANGED pending

LinkBooksToGenres(book_ids, genre_ids) ==
    \E sample \in [1..Len(book_ids) -> Samples(genre_ids) \cup {{}}] :
        /\ \A j \in 1..Len(book_ids) : (sample[j] = {}) = (genre_ids = <<>>)
        /\ Return(link_books_to_genres(db, book_ids, genre_ids, sample))
        /\ UNCHANGED pending

GetBookIds ==
    /\ Return(get_book_ids(db))
    /\ UNCHANGED pending

GetGenreIds ==
    /\ Return(get_genre_ids(db))
    /\ UNCHANGED pending

IsDatabaseEmpty ==
    /\ Return(is_database_empty(db))
    /\ UNCHANGED pending

Delete(table, id) ==
    /\ Return(delete(db, table, id))
    /\ UNCHANGED pending

Update(table, _id, kwargs) ==
    /\ Return(update(db, table, _id, kwargs))
    /\ UNCHANGED pending

SelectAll(table) ==
    /\ Return(select_all(db, table))
    /\ UNCHANGED pending

SelectWhere(table, query) ==
    /\ Return(select_where(db, table, query))
    /\ UNCHANGED pending

PrintFullInfo ==
    /\ Return(print_full_info(db))
    /\ UNCHANGED pending

\* add_genre by one of several callers sharing the file: the check and the
\* insert are two statements, and another caller may run between them.
AddGenreCheck(c, genre_name) ==
    /\ pending[c].pc = "idle"
    /\ LET chk == genre_exists(db, genre_name)
       IN  /\ Return(chk)
           /\ pending' = IF chk.exc # "none" THEN pending
                         ELSE [pending EXCEPT ![c] =
                                 [pc |-> "checked", genre_name |-> genre_name,
                                  exists |-> chk.val]]

AddGenreInsert(c) ==
    /\ pending[c].pc = "checked"
    /\ Return(add_genre_after_check(db, pending[c].genre_name, pending[c].exists))
    /\ pending' = [pending EXCEPT ![c] = Idle]

Next ==
    \/ CreateTables
    \/ \E t \in Titles, a \in AuthorIds, y \in Years : AddBook(t, a, y)
    \/ \E f \in FirstNames : AddAuthor(f, "B", "bio")
    \/ \E g \in GenreNames : GenreExists(g)
    \/ \E g \in GenreNames : AddGenre(g)
    \/ \E b \in BookIdLists, g \in GenreIdLists : LinkBooksToGenres(b, g)
    \/ GetBookIds
    \/ GetGenreIds
    \/ IsDatabaseEmpty
    \/ \E t \in TableArgs, id \in OptionalIds : Delete(t, id)
    \/ \E u \in UpdateCalls : Update(u[1], u[2], u[3])
    \/ \E t \in TableArgs : SelectAll(t)
    \/ \E q \in Queries : SelectWhere(q[1], q[2])
    \/ PrintFullInfo

Spec == Init /\ [][Next]_vars

\* link_books_to_genres with longer genre lists, on a file whose other
\* tables stay empty.
NextLinks ==
    \/ CreateTables
    \/ \E b \in BookIdLists, g \in WideGenreIdLists : LinkBooksToGenres(b, g)
    \/ \E id \in OptionalIds : Delete("book_genres", id)

SpecLinks == Init /\ [][NextLinks]_vars

\* Two callers of add_genre on one file, with the schema set up and genres
\* deleted in between.
NextConcurrent ==
    \/ CreateTables
    \/ \E c \in Callers, g \in GenreNames : AddGenreCheck(c, g)
    \/ \E c \in Callers : AddGenreInsert(c)
    \/ \E id \in OptionalIds : Delete("genres", id)

SpecConcurrent == Init /\ [][NextConcurrent]_vars

\* ---------------------------------------------------------------- claims
\* A store: a usable connection to a file whose schema has been set up.
Store == conn = "ok" /\ DOMAIN db = AllTables

Named(d, genre_name) == {r \in d["genres"] : r.genre_name = genre_name}

\* C1: in a store with no genre row named g, after add_genre(g)
\* genre_exists(g) answers True, and after a second add_genre(g) right behind
\* it the genres table holds exactly one row named g: the second call writes
\* nothing.
C1_AddGenreTwice ==
    Store =>
        \A g \in GenreNames :
            Named(db, g) = {} =>
                LET first  == add_genre(db, g)
                    second == add_genre(first.db, g)
                IN  /\ first.exc = "none" /\ second.exc = "none"
                    /\ genre_exists(first.db, g).val = TRUE
                    /\ Cardinality(Named(first.db, g)) = 1
                    /\ second.db = first.db
                    /\ Cardinality(Named(second.db, g)) = 1

\* C1 witness: add_genre("fantasy") has run in a store: one row carries the
\* name, and a further add_genre("fantasy") finds it.
C1_Witness ==
    /\ Store
    /\ Cardinality(Named(db, "fantasy")) = 1
    /\ Cardinality(db["genres"]) = 2
    /\ genre_exists(db, "fantasy").val = TRUE
    /\ ret = [exc |-> "none", log |-> FALSE]

\* What C2 says of the database d after link_books_to_genres(book_ids,
\* genre_ids): every book of book_ids has between 1 and min(3, |genre_ids|)
\* genres, all of them members of genre_ids.
GenresOf(d, book_id) ==
    {l.genre_id : l \in {l \in d["book_genres"] : l.book_id = book_id}}

Members(list) == {list[i] : i \in 1..Len(list)}

Linked(d, book_ids, genre_ids) ==
    \A b \in Members(book_ids) :
        /\ Cardinality(GenresOf(d, b)) >= 1
        /\ Cardinality(GenresOf(d, b)) <= (IF Len(genre_ids) < 3 THEN Len(genre_ids) ELSE 3)
        /\ GenresOf(d, b) \subseteq Members(genre_ids)

\* The draws link_books_to_genres can make for the lists.
Draws(book_ids, genre_ids) == [1..Len(book_ids) -> Samples(genre_ids)]

\* C2 as stated: from any state of a store, also one that holds association
\* rows, after link_books_to_genres(B, G) with G not empty every book of B has
\* between 1 and min(3, |G|) genres, all drawn from G.
C2_LinkedFromAnyState ==
    Store =>
        \A book_ids \in BookIdLists, genre_ids \in WideGenreIdLists \ {<<>>} :
            \A sample \in Draws(book_ids, genre_ids) :
                Linked(link_books_to_genres(db, book_ids, genre_ids, sample).db,
                       book_ids, genre_ids)

\* C2 amended: the same, when no book of B has an association row before the
\* call.
C2_LinkedFromUnlinked ==
    Store =>
        \A book_ids \in BookIdLists, genre_ids \in WideGenreIdLists \ {<<>>} :
            (\A b \in Members(book_ids) : GenresOf(db, b) = {}) =>
                \A sample \in Draws(book_ids, genre_ids) :
                    Linked(link_books_to_genres(db, book_ids, genre_ids, sample).db,
                           book_ids, genre_ids)

\* C2 witness: book 1 has been linked to three of the genres 1..4 and book 2
\* to none.
C2_Witness ==
    /\ Store
    /\ Cardinality(GenresOf(db, 1)) = 3
    /\ GenresOf(db, 2) = {}
    /\ ret = [exc |-> "none", log |-> FALSE]

\* C3: delete(table) removes every row of the table; delete(table, id)
\* removes the row of the table whose identity is id, at most one row, and
\* nothing else, for each of the four tables and every integer id.
C3_DeleteOneOrAll ==
    Store =>
        \A t \in AllTables :
            /\ delete(db, t, NoId).db = [db EXCEPT ![t] = {}]
            /\ \A n \in 0..MaxId :
                  LET after == delete(db, t, <<n>>).db
                      gone  == db[t] \ after[t]
                  IN  /\ \A u \in AllTables \ {t} : after[u] = db[u]
                      /\ after[t] \subseteq db[t]
                      /\ Cardinality(gone) <= 1
                      /\ t # "book_genres" =>
                            gone = {r \in db[t] : r[RowidCol(t)] = n}

\* C4: no call raises past the class: every call returns.
C4_NothingRaised == ret.exc = "none"

\* What C5 says of update(table, _id, **kwargs) taking d to the outcome o.
Failed(o) == o.exc # "none" \/ o.log

UpdateFrame(d, o, table, _id, kwargs) ==
    IF Failed(o) THEN o.db = d
    ELSE LET T  == table \o "s"
             pk == table \o "_id"
         IN  /\ DOMAIN o.db = DOMAIN d
             /\ \A t \in DOMAIN d \ {T} : o.db[t] = d[t]
             /\ {r \in d[T] : r[pk] # _id} \subseteq o.db[T]
             /\ Cardinality(o.db[T]) = Cardinality(d[T])
             /\ \A r \in d[T] :
                   r[pk] = _id =>
                      [c \in Columns(T) |->
                          IF c \in DOMAIN kwargs THEN kwargs[c] ELSE r[c]] \in o.db[T]

\* C5: update changes the named fields of the row of the pluralised table
\* whose id is _id and nothing else; a failing update (unknown column, no
\* such table, no field) leaves the whole database as it was.
C5_UpdateFrame ==
    \A u \in UpdateCalls :
        UpdateFrame(db, update(db, u[1], u[2], u[3]), u[1], u[2], u[3])

\* C5 witness: update("author", 1, biography="test") has run on a table of two
\* authors.
C5_Witness ==
    /\ Store
    /\ \E a \in db["authors"] : a.author_id = 1 /\ a.biography = "test"
    /\ \E a \in db["authors"] : a.author_id = 2 /\ a.biography = "bio"
    /\ ret = [exc |-> "none", log |-> FALSE]

\* C6: is_database_empty answers True exactly when the four tables exist
\* and none of them has a row.
C6_EmptyIffNoRows ==
    LET o == is_database_empty(db)
    IN  (o.exc = "none" /\ o.val = TRUE)
           <=> (Store /\ \A t \in AllTables : db[t] = {})

\* C6 witness: the schema has just been set up on a fresh file and
\* is_database_empty answers True.
C6_Witness ==
    /\ Store
    /\ TotalRows(db) = 0
    /\ is_database_empty(db).val = TRUE

\* C7: print_full_info prints one record for every row of books, in
\* ascending book_id order.
C7_OneRecordPerBook ==
    Store =>
        LET rows == print_full_info(db).val
        IN  [i \in 1..Len(rows) |-> rows[i].book_id]
               = Ascending({b.book_id : b \in db["books"]})

\* The rows of table t that satisfy every condition of the query.
Matching(d, t, query) ==
    IF t \notin DOMAIN d THEN {}
    ELSE {r \in d[t] :
             \A i \in 1..Len(query) :
                /\ query[i][1] \in Columns(t)
                /\ SqlEq(query[i][1], r[query[i][1]], query[i][2])}

\* C8: select_where with conditions returns exactly the rows of the table
\* that satisfy all of them (by SQL's "=", which no NULL satisfies); with no
\* condition it returns nothing; and it leaves the database as it was.  With
\* one author and the book ("T", 1, "2020"),
\* select_where("books", publication_year="2020") returns that book.
C8_SelectWhere ==
    conn = "ok" =>
        \A q \in Queries :
            LET o == select_where(db, q[1], q[2])
            IN  /\ o.exc = "none"
                /\ o.db = db
                /\ o.val = (IF q[2] = <<>> THEN {} ELSE Matching(db, q[1], q[2]))

TheBook == [book_id |-> 1, title |-> "T", author_id |-> 1, publication_year |-> "2020"]

\* C8 witness: after add_author and add_book("T", 1, "2020"), and a second
\* book by another author,
\* select_where("books", author_id=1, publication_year="2020") returns the
\* first book alone.
C8_Witness ==
    /\ Store
    /\ Cardinality(db["authors"]) = 1
    /\ Cardinality(db["books"]) = 2
    /\ \E b \in db["books"] : b.author_id = 2 /\ b.publication_year = "2020"
    /\ select_where(db, "books",
          << <<"author_id", 1>>, <<"publication_year", "2020">> >>).val = {TheBook}

\* C9: nothing in the storage rejects a second genre row of a name: a caller
\* of add_genre whose check answered False inserts its row whatever the
\* table holds by then.
C9_InsertNotRejected ==
    Store =>
        \A c \in Callers :
            (pending[c].pc = "checked" /\ ~pending[c].exists) =>
                LET g == pending[c].genre_name
                    o == add_genre_after_check(db, g, pending[c].exists)
                IN  /\ ~Failed(o)
                    /\ Cardinality(Named(o.db, g)) = Cardinality(Named(db, g)) + 1

\* C9 witness: both callers passed the check and both inserted: two genre
\* rows share a name.
C9_Witness ==
    /\ Store
    /\ \E r1, r2 \in db["genres"] :
          r1.genre_id # r2.genre_id /\ r1.genre_name = r2.genre_name
    /\ \A c \in Callers : pending[c].pc = "idle"

\* Largest number of create_tables calls in a row that C10 is checked for.
MaxCalls == 3

RECURSIVE CreateTablesTimes(_, _)
CreateTablesTimes(d, n) ==
    IF n = 0 THEN d ELSE CreateTablesTimes(create_tables(d).db, n - 1)

\* C10: from any state of the file, N >= 1 calls of create_tables leave the
\* four tables in place with every row they had, and leave what one call
\* leaves.
C10_CreateTablesIdempotent ==
    conn = "ok" =>
        \A n \in 1..MaxCalls :
            LET after == CreateTablesTimes(db, n)
            IN  /\ DOMAIN after = AllTables
                /\ \A t \in AllTables :
                      after[t] = (IF t \in DOMAIN db THEN db[t] ELSE {})
                /\ after = create_tables(db).db
                /\ create_tables(after).exc = "none"

\* C10 witness: the tables hold rows and create_tables is called again.
C10_Witness ==
    /\ Store
    /\ db["books"] # {} /\ db["authors"] # {} /\ db["genres"] # {}
    /\ create_tables(db).db = db

====
